---- MODULE Spec2Model ----
(***************************************************************************)
(* Model of pgl/math.py: the four public functions segment_sum,            *)
(* segment_mean, segment_min and segment_max.  Each one dispatches on      *)
(* in_dygraph_mode(): the eager branch invokes core.ops.segment_pool and   *)
(* returns its first result, the graph branch checks both inputs, creates  *)
(* two variables and appends one segment_pool operator to the program.     *)
(*                                                                         *)
(* The segment_pool kernel itself is imported from paddle and has no code  *)
(* in pgl/math.py; the operators Validate .. SegmentPoolKernel below       *)
(* follow section 4.1 of the specification.  The kernel runs inside the    *)
(* eager call; in graph mode it runs only when the program is executed,    *)
(* after the function has returned (Fetch).                                *)
(*                                                                         *)
(* Numbers: matrix entries are small integers (exactly representable in    *)
(* float32 and float64); results are exact rationals <<num, den>> in       *)
(* lowest terms, with <<1, 0>> for +infinity and <<-1, 0>> for -infinity.  *)
(***************************************************************************)
EXTENDS Integers, Sequences, FiniteSets, TLC

VARIABLES mode, fn, data, segment_ids, pc, out, summed_ids, tmp, ret, err,
          program, prog0, invoked

vars == <<mode, fn, data, segment_ids, pc, out, summed_ids, tmp, ret, err,
          program, prog0, invoked>>

(***************************************************************************)
(* Bounds of the model.                                                    *)
(***************************************************************************)
MaxRows == 2
MaxCols == 1
MaxId == 2
MaxOps == 1

(***************************************************************************)
(* Exact rational arithmetic.                                              *)
(***************************************************************************)
Abs(x) == IF x < 0 THEN -x ELSE x

RECURSIVE Gcd(_, _)
Gcd(a, b) == IF b = 0 THEN a ELSE Gcd(b, a % b)

Norm(r) ==
    IF r[2] = 0 THEN <<IF r[1] < 0 THEN -1 ELSE 1, 0>>
    ELSE LET g == Gcd(Abs(r[1]), Abs(r[2]))
             s == IF r[2] < 0 THEN -1 ELSE 1
         IN  <<(s * r[1]) \div g, (s * r[2]) \div g>>

Q(n) == <<n, 1>>
PosInf == <<1, 0>>
NegInf == <<-1, 0>>

RAdd(a, b) == Norm(<<a[1] * b[2] + b[1] * a[2], a[2] * b[2]>>)
RLess(a, b) == a[1] * b[2] < b[1] * a[2]
RDiv(a, k) == Norm(<<a[1], a[2] * k>>)

(***************************************************************************)
(* Tensors: element type, shape and values.  A matrix is a sequence of     *)
(* rows, a vector a sequence of numbers.                                   *)
(***************************************************************************)
FloatDtypes == {"float32", "float64"}
IntDtypes == {"int32", "int64"}

Tensor(nm, dt, sh, vs) == [name |-> nm, dtype |-> dt, shape |-> sh, vals |-> vs]

Rows(t) == t.shape[1]
Cols(t) == t.shape[2]

RECURSIVE SeqMax(_, _)
SeqMax(s, i) ==
    IF i = Len(s) THEN s[i]
    ELSE LET m == SeqMax(s, i + 1) IN IF s[i] > m THEN s[i] ELSE m

HasNegative(s) == \E i \in 1..Len(s) : s[i] < 0

(***************************************************************************)
(* The segment reduction kernel (specification, section 4.1).              *)
(***************************************************************************)
\* step 1: the number of groups
GroupCount(segs) == IF Len(segs) = 0 THEN 0 ELSE SeqMax(segs, 1) + 1

\* step 2: the initial value of every output entry
InitValue(kind) ==
    CASE kind \in {"SUM", "MEAN"} -> Q(0)
      [] kind = "MIN" -> PosInf
      [] kind = "MAX" -> NegInf

\* step 3: the combining operator
Combine(kind, acc, x) ==
    CASE kind \in {"SUM", "MEAN"} -> RAdd(acc, x)
      [] kind = "MIN" -> IF RLess(x, acc) THEN x ELSE acc
      [] kind = "MAX" -> IF RLess(acc, x) THEN x ELSE acc

\* step 3: one pass over the rows, in row-index order
RECURSIVE Accumulate(_, _, _, _, _)
Accumulate(vals, segs, kind, i, acc) ==
    IF i > Len(vals) THEN acc
    ELSE LET g == segs[i] + 1
             row == [c \in 1..Len(vals[i]) |->
                        Combine(kind, acc.out[g][c], Q(vals[i][c]))]
         IN  Accumulate(vals, segs, kind, i + 1,
                        [out |-> [h \in 1..Len(acc.out) |->
                                    IF h = g THEN row ELSE acc.out[h]],
                         count |-> [h \in 1..Len(acc.count) |->
                                    IF h = g THEN acc.count[h] + 1
                                    ELSE acc.count[h]]])

\* step 4: the post-pass of MEAN
Finish(kind, acc, d) ==
    IF kind = "MEAN" /\ Len(acc.out) > 0
    THEN [g \in 1..Len(acc.out) |->
            IF acc.count[g] > 0
            THEN [c \in 1..d |-> RDiv(acc.out[g][c], acc.count[g])]
            ELSE acc.out[g]]
    ELSE acc.out

\* the validation that precedes the pass
Validate(X, SegmentIds) ==
    IF Len(SegmentIds.vals) # Rows(X) THEN "ShapeMismatch"
    ELSE IF X.dtype \notin FloatDtypes \/ SegmentIds.dtype \notin IntDtypes
         THEN "UnsupportedDtype"
    ELSE IF HasNegative(SegmentIds.vals) THEN "NegativeSegmentId"
    ELSE "none"

\* reduce(data, segment_ids, kind): the output matrix and the count vector
Reduce(X, SegmentIds, kind) ==
    LET G == GroupCount(SegmentIds.vals)
        D == Cols(X)
        acc0 == IF G = 0 THEN [out |-> <<>>, count |-> <<>>]
                ELSE [out |-> [g \in 1..G |-> [c \in 1..D |-> InitValue(kind)]],
                      count |-> [g \in 1..G |-> 0]]
        acc == Accumulate(X.vals, SegmentIds.vals, kind, 1, acc0)
    IN  [Out |-> Tensor(<<"Out">>, X.dtype, <<G, D>>, Finish(kind, acc, D)),
         SummedIds |-> Tensor(<<"SummedIds">>, X.dtype, <<G>>, acc.count)]

SegmentPoolKernel(X, SegmentIds, kind) ==
    LET e == Validate(X, SegmentIds)
    IN  IF e # "none" THEN [error |-> e]
        ELSE [error |-> "none"] @@ Reduce(X, SegmentIds, kind)

(***************************************************************************)
(* core.ops.segment_pool(data, segment_ids, 'pooltype', kind): the eager   *)
(* operator call; its results are unpacked as (out, tmp).                  *)
(***************************************************************************)
core_ops_segment_pool(X, SegmentIds, kind) ==
    LET r == SegmentPoolKernel(X, SegmentIds, kind)
    IN  IF r.error # "none" THEN r
        ELSE [error |-> "none", results |-> <<r.Out, r.SummedIds>>]

\* mutant: the eager branch of segment_mean passes the pooltype of segment_sum
DygraphPoolType_MeanAsSum(f) ==
    CASE f = "segment_sum" -> "SUM"
      [] f = "segment_mean" -> "SUM"
      [] f = "segment_min" -> "MIN"
      [] f = "segment_max" -> "MAX"

\* mutant: the eager branch of segment_max passes "MIN", as its docstring reads
DygraphPoolType_MaxAsMin(f) ==
    CASE f = "segment_sum" -> "SUM"
      [] f = "segment_mean" -> "MEAN"
      [] f = "segment_min" -> "MIN"
      [] f = "segment_max" -> "MIN"

\* the pooltype attribute each function passes in the eager branch
DygraphPoolType(f) ==
    CASE f = "segment_sum" -> "SUM"
      [] f = "segment_mean" -> "MEAN"
      [] f = "segment_min" -> "MIN"
      [] f = "segment_max" -> "MAX"

\* mutant: the graph branch of segment_sum passes the pooltype of segment_mean
StaticPoolType_SumAsMean(f) ==
    CASE f = "segment_sum" -> "MEAN"
      [] f = "segment_mean" -> "MEAN"
      [] f = "segment_min" -> "MIN"
      [] f = "segment_max" -> "MAX"

\* the pooltype attribute each function passes to append_op
StaticPoolType(f) ==
    CASE f = "segment_sum" -> "SUM"
      [] f = "segment_mean" -> "MEAN"
      [] f = "segment_min" -> "MIN"
      [] f = "segment_max" -> "MAX"

\* mutant: the eager branch returns tmp, the second result
DygraphReturned_Tmp(o, t) == t

\* which of the two unpacked results the eager branch returns
DygraphReturned(o, t) == o

\* which of the two created variables the graph branch returns
StaticReturned(o, s) == o

\* check_variable_and_dtype(input, name, dtypes, "segment_pool")
check_variable_and_dtype(input, dtypes) == input.dtype \in dtypes

\* mutant: the output variable is created before segment_ids is checked
StaticSteps_CreateBeforeCheck ==
    <<"check_X", "helper", "create_out", "check_SegmentIds",
      "create_summed_ids", "append_op", "return">>

\* the statements of the graph branch, in program order
StaticSteps ==
    <<"check_X", "check_SegmentIds", "helper", "create_out",
      "create_summed_ids", "append_op", "return">>

StepIndex(p) == CHOOSE i \in 1..Len(StaticSteps) : StaticSteps[i] = p
NextStep(p) == StaticSteps[StepIndex(p) + 1]

(***************************************************************************)
(* The inputs a caller can pass.                                           *)
(***************************************************************************)
Functions == {"segment_sum", "segment_mean", "segment_min", "segment_max"}
Modes == {"dygraph", "static"}
AllDtypes == FloatDtypes \cup IntDtypes
Vals == {-1, 2}
DataName == <<"data">>
IdsName == <<"segment_ids">>
NoValue == [kind |-> "none"]

\* the sequences of length n over S
SeqsOf(n, S) == IF n = 0 THEN {<<>>} ELSE [1..n -> S]

NonDecreasing(n, lo, hi) ==
    {s \in SeqsOf(n, lo..hi) : \A i \in 1..(n - 1) : s[i] <= s[i + 1]}

\* the rows of d columns: the columns alternate between v and 1 - v
RowsOf(d) == {[c \in 1..d |-> IF c % 2 = 1 THEN v ELSE 1 - v] : v \in Vals}

\* well-formed inputs: every sequence of rows with every valid id vector
\* (non-negative and non-decreasing, as the contract of segment_ids requires)
ValueInputs ==
    UNION {UNION {{<<Tensor(DataName, "float32", <<n, d>>, m),
                     Tensor(IdsName, "int32", <<n>>, s)>> :
                        m \in SeqsOf(n, RowsOf(d)),
                        s \in NonDecreasing(n, 0, MaxId)} :
                   d \in 1..MaxCols} :
           n \in 0..MaxRows}

\* one column of constant data with ids of any length over {-1, 0}
ShapeInputs ==
    UNION {UNION {{<<Tensor(DataName, "float64", <<n, 1>>,
                            IF n = 0 THEN <<>> ELSE [i \in 1..n |-> <<2>>]),
                     Tensor(IdsName, "int64", <<k>>, s)>> :
                        s \in NonDecreasing(k, -1, 0)} :
                   k \in 0..MaxRows} :
           n \in 0..MaxRows}

\* the example of the docstrings with every combination of element types
ExampleData == <<<<1, 2, 3>>, <<3, 2, 1>>, <<4, 5, 6>>>>
ExampleIds == <<0, 0, 1>>
DtypeInputs ==
    {<<Tensor(DataName, dd, <<3, 3>>, ExampleData),
       Tensor(IdsName, di, <<3>>, ExampleIds)>> :
        dd \in AllDtypes, di \in AllDtypes}

Inputs == ValueInputs \cup ShapeInputs \cup DtypeInputs

(***************************************************************************)
(* State.                                                                  *)
(***************************************************************************)
EmptyProgram == [vars |-> <<>>, ops |-> <<>>]
NoTensor == Tensor(<<"none">>, "none", <<0>>, <<>>)

Init ==
    /\ mode \in Modes
    /\ fn = "none"
    /\ data = NoTensor
    /\ segment_ids = NoTensor
    /\ pc = "idle"
    /\ out = NoValue
    /\ summed_ids = NoValue
    /\ tmp = NoValue
    /\ ret = NoValue
    /\ err = "none"
    /\ program = EmptyProgram
    /\ prog0 = EmptyProgram
    /\ invoked = NoValue

\* paddle.disable_static() / paddle.enable_static() between calls
SwitchMode ==
    /\ pc = "idle"
    /\ mode' = IF mode = "dygraph" THEN "static" ELSE "dygraph"
    /\ UNCHANGED <<fn, data, segment_ids, pc, out, summed_ids, tmp, ret, err,
                   program, prog0, invoked>>

\* entry of f(data, segment_ids): the branch on in_dygraph_mode()
Call(f, inp) ==
    /\ pc = "idle"
    /\ mode = "static" => Len(program.ops) < MaxOps
    /\ fn' = f
    /\ data' = inp[1]
    /\ segment_ids' = inp[2]
    /\ pc' = IF mode = "dygraph" THEN "segment_pool" ELSE StaticSteps[1]
    /\ prog0' = program
    /\ UNCHANGED <<mode, out, summed_ids, tmp, ret, err, program, invoked>>

\* out, tmp = core.ops.segment_pool(...); return out
DygraphSegmentPool ==
    /\ pc = "segment_pool"
    /\ LET kind == DygraphPoolType(fn)
           r == core_ops_segment_pool(data, segment_ids, kind)
       IN  /\ invoked' = [kind |-> "segment_pool", X |-> data,
                          SegmentIds |-> segment_ids, pooltype |-> kind]
           /\ IF r.error # "none"
              THEN /\ err' = r.error
                   /\ pc' = "raised"
                   /\ UNCHANGED <<out, tmp, ret>>
              ELSE /\ out' = r.results[1]
                   /\ tmp' = r.results[2]
                   /\ ret' = DygraphReturned(r.results[1], r.results[2])
                   /\ pc' = "done"
                   /\ UNCHANGED err
    /\ UNCHANGED <<mode, fn, data, segment_ids, summed_ids, program, prog0>>

\* check_variable_and_dtype(data, "X", ("float32", "float64"), "segment_pool")
CheckX ==
    /\ pc = "check_X"
    /\ IF check_variable_and_dtype(data, FloatDtypes)
       THEN pc' = NextStep(pc) /\ UNCHANGED err
       ELSE pc' = "raised" /\ err' = "UnsupportedDtype"
    /\ UNCHANGED <<mode, fn, data, segment_ids, out, summed_ids, tmp, ret,
                   program, prog0, invoked>>

\* check_variable_and_dtype(segment_ids, "SegmentIds", ("int32", "int64"), ..)
CheckSegmentIds ==
    /\ pc = "check_SegmentIds"
    /\ IF check_variable_and_dtype(segment_ids, IntDtypes)
       THEN pc' = NextStep(pc) /\ UNCHANGED err
       ELSE pc' = "raised" /\ err' = "UnsupportedDtype"
    /\ UNCHANGED <<mode, fn, data, segment_ids, out, summed_ids, tmp, ret,
                   program, prog0, invoked>>

\* helper = LayerHelper(name, **locals())
CreateHelper ==
    /\ pc = "helper"
    /\ pc' = NextStep(pc)
    /\ UNCHANGED <<mode, fn, data, segment_ids, out, summed_ids, tmp, ret, err,
                   program, prog0, invoked>>

\* helper.create_variable_for_type_inference(dtype=data.dtype)
create_variable_for_type_inference(prog, dt) ==
    [name |-> <<"tmp", Len(prog.vars)>>, dtype |-> dt]

\* out = helper.create_variable_for_type_inference(dtype=data.dtype)
CreateOut ==
    /\ pc = "create_out"
    /\ LET v == create_variable_for_type_inference(program, data.dtype)
       IN  /\ out' = [kind |-> "var"] @@ v
           /\ program' = [program EXCEPT !.vars = Append(@, v)]
    /\ pc' = NextStep(pc)
    /\ UNCHANGED <<mode, fn, data, segment_ids, summed_ids, tmp, ret, err,
                   prog0, invoked>>

\* mutant: no second variable is created, out is passed for SummedIds too
CreateSummedIds_ReusesOut ==
    /\ pc = "create_summed_ids"
    /\ summed_ids' = out
    /\ pc' = NextStep(pc)
    /\ UNCHANGED <<mode, fn, data, segment_ids, out, tmp, ret, err,
                   program, prog0, invoked>>

\* summed_ids = helper.create_variable_for_type_inference(dtype=data.dtype)
CreateSummedIds ==
    /\ pc = "create_summed_ids"
    /\ LET v == create_variable_for_type_inference(program, data.dtype)
       IN  /\ summed_ids' = [kind |-> "var"] @@ v
           /\ program' = [program EXCEPT !.vars = Append(@, v)]
    /\ pc' = NextStep(pc)
    /\ UNCHANGED <<mode, fn, data, segment_ids, out, tmp, ret, err,
                   prog0, invoked>>

\* mutant: the two output variables are bound to each other's slot
SegmentPoolOp_SwappedOutputs(f, X, SegmentIds, o, s) ==
    [type |-> "segment_pool",
     inputs |-> [X |-> X.name, SegmentIds |-> SegmentIds.name],
     outputs |-> [Out |-> s.name, SummedIds |-> o.name],
     attrs |-> [pooltype |-> StaticPoolType(f)]]

\* the operator helper.append_op adds to the program
SegmentPoolOp(f, X, SegmentIds, o, s) ==
    [type |-> "segment_pool",
     inputs |-> [X |-> X.name, SegmentIds |-> SegmentIds.name],
     outputs |-> [Out |-> o.name, SummedIds |-> s.name],
     attrs |-> [pooltype |-> StaticPoolType(f)]]

\* helper.append_op(type="segment_pool", inputs=.., outputs=.., attrs=..)
AppendOp ==
    /\ pc = "append_op"
    /\ program' = [program EXCEPT !.ops =
                      Append(@, SegmentPoolOp(fn, data, segment_ids,
                                              out, summed_ids))]
    /\ pc' = NextStep(pc)
    /\ UNCHANGED <<mode, fn, data, segment_ids, out, summed_ids, tmp, ret, err,
                   prog0, invoked>>

\* return out
ReturnOut ==
    /\ pc = "return"
    /\ ret' = StaticReturned(out, summed_ids)
    /\ pc' = "done"
    /\ UNCHANGED <<mode, fn, data, segment_ids, out, summed_ids, tmp, err,
                   program, prog0, invoked>>

\* the call is over: its frame and the caller's references are dropped
Release ==
    /\ pc \in {"done", "raised"}
    /\ fn' = "none"
    /\ data' = NoTensor
    /\ segment_ids' = NoTensor
    /\ pc' = "idle"
    /\ out' = NoValue
    /\ summed_ids' = NoValue
    /\ tmp' = NoValue
    /\ ret' = NoValue
    /\ err' = "none"
    /\ prog0' = program
    /\ invoked' = NoValue
    /\ UNCHANGED <<mode, program>>

Next ==
    \/ SwitchMode
    \/ pc = "idle" /\ \E f \in Functions, inp \in Inputs : Call(f, inp)
    \/ DygraphSegmentPool
    \/ CheckX
    \/ CheckSegmentIds
    \/ CreateHelper
    \/ CreateOut
    \/ CreateSummedIds
    \/ AppendOp
    \/ ReturnOut
    \/ Release

Spec == Init /\ [][Next]_vars

(***************************************************************************)
(* The value a call's result holds.  In eager mode the result is a tensor. *)
(* In graph mode it is a variable of the program; its value is what the    *)
(* operator that produces it computes when the program is run with the     *)
(* call's data and segment_ids fed to the variables of those names.        *)
(***************************************************************************)
Feed(nm) == IF nm = data.name THEN data ELSE segment_ids

Producer(v) ==
    CHOOSE i \in 1..Len(program.ops) :
        v.name \in {program.ops[i].outputs.Out, program.ops[i].outputs.SummedIds}

RunOp(o) ==
    SegmentPoolKernel(Feed(o.inputs.X), Feed(o.inputs.SegmentIds), o.attrs.pooltype)

Fetch(v) ==
    LET o == program.ops[Producer(v)]
        r == RunOp(o)
    IN  IF v.name = o.outputs.Out THEN r.Out ELSE r.SummedIds

Result == IF mode = "dygraph" THEN ret ELSE Fetch(ret)

(***************************************************************************)
(* Vocabulary of the claims, stated on the inputs of the call and          *)
(* independently of the kernel's pass.                                     *)
(***************************************************************************)
Finished == pc \in {"done", "raised"}
Returned == pc = "done"
Ids == segment_ids.vals

SupportedDtypes == data.dtype \in FloatDtypes /\ segment_ids.dtype \in IntDtypes
SameLength == Len(Ids) = Rows(data)
ValidCall ==
    /\ fn \in Functions
    /\ SupportedDtypes
    /\ SameLength
    /\ \A i \in 1..Len(Ids) : Ids[i] >= 0
    /\ \A i \in 1..(Len(Ids) - 1) : Ids[i] <= Ids[i + 1]

LargestId == CHOOSE m \in {Ids[i] : i \in 1..Len(Ids)} : \A i \in 1..Len(Ids) : Ids[i] <= m
ExpectedGroups == IF Len(Ids) = 0 THEN 0 ELSE LargestId + 1
RowsOfGroup(g) == {i \in 1..Len(Ids) : Ids[i] = g}
ColumnOf(g, c) == {data.vals[i][c] : i \in RowsOfGroup(g)}

RECURSIVE SumOver(_, _)
SumOver(S, c) ==
    IF S = {} THEN 0
    ELSE LET i == CHOOSE x \in S : TRUE
         IN  data.vals[i][c] + SumOver(S \ {i}, c)

Least(S) == CHOOSE v \in S : \A w \in S : v <= w
Greatest(S) == CHOOSE v \in S : \A w \in S : v >= w

\* the rational r equals n / k
IsQuotient(r, n, k) == r[2] > 0 /\ r[1] * k = n * r[2]

ExpectedPoolType(f) ==
    CASE f = "segment_sum" -> "SUM"
      [] f = "segment_mean" -> "MEAN"
      [] f = "segment_min" -> "MIN"
      [] f = "segment_max" -> "MAX"

\* C1: for every valid input segment_sum returns, for every group g in
\* 0..max(segment_ids), the componentwise sum of exactly the rows assigned to
\* g; a group without rows is an all-zero row.
C1_SegmentSum ==
    (Finished /\ fn = "segment_sum" /\ ValidCall) =>
        /\ Returned
        /\ Len(Result.vals) = ExpectedGroups
        /\ \A g \in 0..(ExpectedGroups - 1) : \A c \in 1..Cols(data) :
              /\ Result.vals[g + 1][c] = Q(SumOver(RowsOfGroup(g), c))
              /\ RowsOfGroup(g) = {} => Result.vals[g + 1][c] = Q(0)

\* segment_sum has returned for ids that skip a group below the largest id
C1_Witness ==
    /\ Returned /\ fn = "segment_sum" /\ ValidCall /\ mode = "static"
    /\ \E g \in 0..(ExpectedGroups - 1) : RowsOfGroup(g) = {}
    /\ \E g \in 0..(ExpectedGroups - 1) : RowsOfGroup(g) # {}

\* C2: for every valid input segment_mean returns for every group g the
\* group's componentwise sum divided by the number of its rows when that number
\* is positive, and the all-zero row when the group has no row.
C2_SegmentMean ==
    (Finished /\ fn = "segment_mean" /\ ValidCall) =>
        /\ Returned
        /\ Len(Result.vals) = ExpectedGroups
        /\ \A g \in 0..(ExpectedGroups - 1) : \A c \in 1..Cols(data) :
              LET count == Cardinality(RowsOfGroup(g))
              IN  IF count > 0
                  THEN IsQuotient(Result.vals[g + 1][c],
                                  SumOver(RowsOfGroup(g), c), count)
                  ELSE Result.vals[g + 1][c] = Q(0)

\* segment_mean has returned for ids with a group of no row
C2_Witness ==
    /\ Returned /\ fn = "segment_mean" /\ ValidCall
    /\ \E g \in 0..(ExpectedGroups - 1) : Cardinality(RowsOfGroup(g)) = 0

C4_OutputShape ==
    (Finished /\ ValidCall) =>
        /\ Returned
        /\ Result.shape = <<ExpectedGroups, Cols(data)>>
        /\ Len(Result.vals) = ExpectedGroups
        /\ \A g \in 1..ExpectedGroups : Len(Result.vals[g]) = Cols(data)
        /\ Rows(data) = 0 => Len(Result.vals) = 0

\* a call on data of 0 rows has returned
C4_Witness == Returned /\ ValidCall /\ Rows(data) = 0 /\ Result.shape[1] = 0

\* C5: whenever the length of segment_ids differs from the number of rows of
\* data the call fails with ShapeMismatch, in both modes, no output is
\* allocated and no reduction is executed.  (Stated for inputs with no other
\* defect, so that no second error competes with ShapeMismatch.)
C5_ShapeMismatch ==
    (fn \in Functions /\ ~SameLength /\ SupportedDtypes /\ ~HasNegative(Ids)) =>
        /\ ~Returned
        /\ pc = "raised" => err = "ShapeMismatch"
        /\ program = prog0
        /\ out = NoValue

\* C6: whenever an element type is unsupported the call fails with
\* UnsupportedDtype, in both modes, and the segment_pool operator is never run
\* on such an input.  (Stated for inputs with no other defect.)
C6_UnsupportedDtype ==
    (fn \in Functions /\ ~SupportedDtypes /\ SameLength /\ ~HasNegative(Ids)) =>
        /\ ~Returned
        /\ pc = "raised" => err = "UnsupportedDtype"
        /\ invoked = NoValue

\* C7: whenever an entry of segment_ids is negative the call fails with
\* NegativeSegmentId instead of returning.  (Stated for inputs with no other
\* defect.)
C7_NegativeSegmentId ==
    (fn \in Functions /\ HasNegative(Ids) /\ SameLength /\ SupportedDtypes) =>
        /\ ~Returned
        /\ pc = "raised" => err = "NegativeSegmentId"

\* C8 as stated: between the entry of a call and its end nothing but the
\* returned value changes: not data, not segment_ids, not the mode, not the
\* program a later call sees.
C8_NoEffectAtAll ==
    [][(pc # "idle" /\ pc' # "idle") =>
          /\ data' = data
          /\ segment_ids' = segment_ids
          /\ mode' = mode
          /\ program' = program]_vars

IsPrefix(s, t) == Len(s) <= Len(t) /\ \A i \in 1..Len(s) : s[i] = t[i]

\* C8 as amended: a call never changes data, segment_ids or the mode; in eager
\* mode it leaves the program alone; in graph mode it only adds to the program,
\* a call that returns has added exactly the two variables out and summed_ids
\* and one segment_pool operator, and a call that raises has added nothing.
C8_FrameOfCall ==
    [][(pc # "idle" /\ pc' # "idle") =>
          /\ data' = data
          /\ segment_ids' = segment_ids
          /\ mode' = mode
          /\ mode = "dygraph" => program' = program
          /\ IsPrefix(program.vars, program'.vars)
          /\ IsPrefix(program.ops, program'.ops)
          /\ pc' = "raised" => program' = prog0
          /\ (pc' = "done" /\ mode = "static") =>
                /\ Len(program'.ops) = Len(prog0.ops) + 1
                /\ Len(program'.vars) = Len(prog0.vars) + 2
                /\ {program'.vars[i].name :
                       i \in (Len(prog0.vars) + 1)..Len(program'.vars)}
                     = {out'.name, summed_ids'.name}
                /\ out'.name # summed_ids'.name]_vars

\* a graph-mode call has returned and the program has grown
C8_Witness == Returned /\ mode = "static" /\ program # prog0 /\ data.vals # <<>>

\* C9: in graph mode every check precedes every piece of reduction work: while
\* the checks run and when one of them has failed, no variable has been created
\* and no operator appended, and nothing is returned.
C9_ChecksFirst ==
    (mode = "static" /\ pc \in {"check_X", "check_SegmentIds", "raised"}) =>
        /\ program = prog0
        /\ out = NoValue
        /\ summed_ids = NoValue
        /\ ret = NoValue

\* the check of segment_ids, the second one, has failed in graph mode
C9_Witness ==
    /\ mode = "static" /\ pc = "raised" /\ err = "UnsupportedDtype"
    /\ data.dtype \in FloatDtypes /\ segment_ids.dtype \notin IntDtypes

\* C10: in both modes each function runs segment_pool with the pooltype of its
\* own name, data as X and segment_ids as SegmentIds, and returns the
\* operator's Out, never its SummedIds; so both modes compute the same
\* reduction of the same inputs.
C10_Dispatch ==
    Returned =>
        /\ mode = "dygraph" =>
              /\ invoked = [kind |-> "segment_pool", X |-> data,
                            SegmentIds |-> segment_ids,
                            pooltype |-> ExpectedPoolType(fn)]
              /\ ret.name = <<"Out">>
        /\ mode = "static" =>
              /\ Len(program.ops) = Len(prog0.ops) + 1
              /\ program.ops[Len(program.ops)] =
                    [type |-> "segment_pool",
                     inputs |-> [X |-> DataName, SegmentIds |-> IdsName],
                     outputs |-> [Out |-> ret.name, SummedIds |-> summed_ids.name],
                     attrs |-> [pooltype |-> ExpectedPoolType(fn)]]
              /\ ret.name # summed_ids.name
        /\ ValidCall =>
              Result = SegmentPoolKernel(data, segment_ids,
                                         ExpectedPoolType(fn)).Out

\* segment_max has returned in graph mode
C10_Witness ==
    Returned /\ mode = "static" /\ fn = "segment_max" /\ Len(Ids) > 0

====
